---- MODULE Spec2Model ----
(***************************************************************************)
(* Webhook ingestion of the GitHub issues service: WebhookVerifier,        *)
(* EventStore and the POST /webhook route of src/services/github-client.ts *)
(*                                                                         *)
(* Strings the code inspects character by character (the signature tag)    *)
(* are sequences of one-character strings.  Strings the code treats as     *)
(* opaque (secrets, delivery ids, event kinds, actions) are TLA+ strings.   *)
(***************************************************************************)
EXTENDS Integers, Sequences, FiniteSets, TLC

VARIABLES
    secret,      \* WebhookVerifier.secret
    vpayload,    \* payload argument of the next verifySignature call
    vsignature,  \* signature argument of the next verifySignature call
    vresult,     \* outcome of the last verifySignature call on (vpayload, vsignature)
    now,         \* the clock, in ticks
    init,        \* EventStore.initPromise: "pending", "resolved" or "rejected"
    table,       \* the rows of webhook_events, in rowid order
    pending,     \* storeEvent calls that have not settled yet
    db,          \* the sqlite3 handle this.db: "open", "closing" or "closed"
    last,        \* the last EventStore operation that settled, and its result
    resp,        \* the last delivery POST /webhook answered, and its answer
    rateLimit,   \* GitHubClient.rateLimit of each client: null or the last snapshot
    api          \* the last request a REST route answered, and its answer

verifierVars == <<secret, vpayload, vsignature, vresult>>

storeVars == <<now, init, table, pending, last, db>>

restVars == <<rateLimit, api>>

vars == <<secret, vpayload, vsignature, vresult, now, init, table, pending, last,
          db, resp, rateLimit, api>>

(***************************************************************************)
(* Bounds of the model.                                                    *)
(***************************************************************************)
\* bytes of a digest (SHA-256 has 32; the hex/length logic is the same)
DigestBytes == 2

\* ticks of the clock in one second (created_at has a precision of one second)
TicksPerSecond == 3

\* the clock stops at this tick
MaxTime == 3

\* storeEvent calls that may be in flight at once
MaxPending == 1

\* rows the database file has room for
MaxRows == 2

\* largest LIMIT a caller of getEvents passes
MaxLimit == 1

\* storeEvent calls concurrent callers keep in flight at once
MaxWriters == 2

(***************************************************************************)
(* JavaScript values.                                                      *)
(***************************************************************************)
\* An optional value is <<>> (JavaScript undefined or null, an absent header,
\* SQL NULL) or <<v>>.
None == <<>>

Some(v) == <<v>>

\* x || undefined, x || null: a falsy x (undefined, null, 0) becomes absent
OrUndefined(x) == IF x = None \/ x = Some(0) THEN None ELSE x

(***************************************************************************)
(* Request bodies and their serialisations.                                *)
(***************************************************************************)
\* values of body.action: absent, or an action name
Actions == {None, Some("opened"), Some("closed")}

\* values of body.issue: absent, or an object with a number
IssueNumbers == {0, 1}

Issues == {None} \cup {Some(n) : n \in IssueNumbers}

\* the parsed request body (request.body)
Bodies == [action : Actions, issue : Issues]

\* how the sender laid out the JSON text it sent
Formats == {"compact", "spaced"}

\* request.body of a request that carries no body: undefined
Undefined == [action |-> None, issue |-> None, undefined |-> TRUE]

\* what a request without a body puts on the wire
NoBody == [content |-> Undefined, fmt |-> "none"]

\* JSON.stringify(undefined): undefined, not a string
UndefinedText == [content |-> Undefined, fmt |-> "undefined"]

\* JSON.stringify(body): the compact serialisation of a parsed body
JsonStringify(body) ==
    IF body = Undefined THEN UndefinedText ELSE [content |-> body, fmt |-> "compact"]

\* the texts a sender can put on the wire
Texts == [content : Bodies, fmt : Formats]

\* Fastify's body parser: the parsed body of a text forgets its layout; a
\* request without a body has none
JsonParse(text) == IF text = NoBody THEN Undefined ELSE text.content

ActionCode(a) == IF a = None THEN 0 ELSE IF a = Some("opened") THEN 1 ELSE 2

IssueCode(i) == IF i = None THEN 0 ELSE i[1] + 1

\* a number that identifies a text (the bytes fed to the HMAC)
TextCode(t) ==
    IF t = NoBody THEN 64
    ELSE (IF t.fmt = "compact" THEN 0 ELSE 32) + 8 * ActionCode(t.content.action)
             + IssueCode(t.content.issue)

(***************************************************************************)
(* Hexadecimal text and Buffers.                                           *)
(***************************************************************************)
HexDigits == <<"0","1","2","3","4","5","6","7","8","9","a","b","c","d","e","f">>

UpperDigits == <<"0","1","2","3","4","5","6","7","8","9","A","B","C","D","E","F">>

IsHexChar(c) == \E i \in 1..16 : HexDigits[i] = c \/ UpperDigits[i] = c

HexVal(c) == (CHOOSE i \in 1..16 : HexDigits[i] = c \/ UpperDigits[i] = c) - 1

\* digest('hex'): two lower-case digits per byte
RECURSIVE HexEncode(_)
HexEncode(bytes) ==
    IF bytes = <<>> THEN <<>>
    ELSE <<HexDigits[(Head(bytes) \div 16) + 1], HexDigits[(Head(bytes) % 16) + 1]>>
             \o HexEncode(Tail(bytes))

\* Buffer.from(str, 'hex'): decodes pairs of digits and stops at the first pair
\* that is not two hex digits, or at a single trailing character
RECURSIVE BufferFromHex(_)
BufferFromHex(str) ==
    IF Len(str) < 2 THEN <<>>
    ELSE IF ~(IsHexChar(str[1]) /\ IsHexChar(str[2])) THEN <<>>
    ELSE <<16 * HexVal(str[1]) + HexVal(str[2])>>
             \o BufferFromHex(SubSeq(str, 3, Len(str)))

(***************************************************************************)
(* String helpers of the JavaScript runtime.                               *)
(***************************************************************************)
Prefix == <<"s","h","a","2","5","6","=">>

\* String.prototype.startsWith
StartsWith(str, pat) ==
    Len(str) >= Len(pat) /\ SubSeq(str, 1, Len(pat)) = pat

\* positions at which pat occurs in str
Occurrences(str, pat) ==
    {i \in 1..(Len(str) - Len(pat) + 1) : SubSeq(str, i, i + Len(pat) - 1) = pat}

\* (mutant of RemoveFirst: the prefix is not stripped)
RemoveFirstKeepsAll(str, pat) == str

\* String.prototype.replace(pat, ''): removes the first occurrence of pat
RemoveFirst(str, pat) ==
    IF Occurrences(str, pat) = {} THEN str
    ELSE LET i == CHOOSE k \in Occurrences(str, pat) :
                      \A j \in Occurrences(str, pat) : k <= j
         IN  SubSeq(str, 1, i - 1) \o SubSeq(str, i + Len(pat), Len(str))

(***************************************************************************)
(* WebhookVerifier.                                                        *)
(***************************************************************************)
Secrets == {"test-secret", "other-secret"}

SecretCode(s) == IF s = "test-secret" THEN 1 ELSE 2

\* createHmac('sha256', secret).update(payload).digest(): a keyed digest of
\* DigestBytes bytes, free of collisions between the texts of the model
Hmac(s, text) ==
    [i \in 1..DigestBytes |-> (31 * SecretCode(s) + 17 * TextCode(text) + 7 * i) % 256]

\* (mutant of TimingSafeEqual: buffers of one length compare equal)
TimingSafeEqualLengthOnly(a, b) ==
    [ret |-> (Len(a) = Len(b)), threw |-> FALSE, cmp |-> <<Len(a), Len(b)>>]

\* crypto.timingSafeEqual: throws when the lengths differ
TimingSafeEqual(a, b) ==
    IF Len(a) # Len(b)
    THEN [ret |-> FALSE, threw |-> TRUE, cmp |-> <<Len(a), Len(b)>>]
    ELSE [ret |-> (a = b), threw |-> FALSE, cmp |-> <<Len(a), Len(b)>>]

NotCompared(r) == [ret |-> r, threw |-> FALSE, cmp |-> <<>>]

\* the length test before the comparison
SameLength(a, b) == Len(a) = Len(b)

\* WebhookVerifier.verifySignature: the value returned, whether it threw, and
\* the buffer lengths handed to timingSafeEqual (<<>> when it was not reached);
\* hmac.update throws a TypeError on a payload that is not a string
verifySignature(s, payload, signature) ==
    IF signature = <<>> THEN NotCompared(FALSE)
    ELSE IF ~StartsWith(signature, Prefix) THEN NotCompared(FALSE)
    ELSE IF payload = UndefinedText
    THEN [ret |-> FALSE, threw |-> TRUE, cmp |-> <<>>]
    ELSE LET expectedSignature == RemoveFirst(signature, Prefix)
             calculatedSignature == HexEncode(Hmac(s, payload))
             expectedBuffer == BufferFromHex(expectedSignature)
             calculatedBuffer == BufferFromHex(calculatedSignature)
         IN  IF ~SameLength(expectedBuffer, calculatedBuffer)
             THEN NotCompared(FALSE)
             ELSE TimingSafeEqual(expectedBuffer, calculatedBuffer)

\* WebhookVerifier.getSignature
getSignature(s, payload) == Prefix \o HexEncode(Hmac(s, payload))

\* One step of a run of verifySignature: what is executed, and on how many
\* characters or bytes.
Step(name, size) == [step |-> name, size |-> size]

\* (mutant of TimingSafeEqualSteps: the comparison stops at the first byte
\* that differs)
TimingSafeEqualStepsEarlyExit(a, b) ==
    LET differ == {i \in 1..Len(a) : a[i] # b[i]}
        n == IF differ = {} THEN Len(a)
             ELSE CHOOSE i \in differ : \A j \in differ : i <= j
    IN  [i \in 1..n |-> Step("compare byte", i)]

\* crypto.timingSafeEqual on buffers of one length: every byte is compared,
\* whatever the bytes are
TimingSafeEqualSteps(a, b) == [i \in 1..Len(a) |-> Step("compare byte", i)]

\* the steps a run of verifySignature executes, branch by branch
verifySignatureSteps(s, payload, signature) ==
    LET tested == <<Step("!signature", 0)>>
    IN  IF signature = <<>> THEN tested
        ELSE LET prefixed == tested \o <<Step("startsWith", Len(Prefix))>>
             IN  IF ~StartsWith(signature, Prefix) THEN prefixed
                 ELSE LET expectedSignature == RemoveFirst(signature, Prefix)
                          calculatedSignature == HexEncode(Hmac(s, payload))
                          expectedBuffer == BufferFromHex(expectedSignature)
                          calculatedBuffer == BufferFromHex(calculatedSignature)
                          decoded ==
                              prefixed \o
                              << Step("replace", Len(signature)),
                                 Step("createHmac update digest", DigestBytes),
                                 Step("Buffer.from", Len(expectedSignature)),
                                 Step("Buffer.from", Len(calculatedSignature)),
                                 Step("length test", 0) >>
                      IN  IF ~SameLength(expectedBuffer, calculatedBuffer)
                          THEN decoded
                          ELSE decoded \o TimingSafeEqualSteps(expectedBuffer,
                                                               calculatedBuffer)

(***************************************************************************)
(* Candidate tags a caller may present.                                    *)
(***************************************************************************)
ToUpper(c) ==
    IF \E i \in 1..16 : HexDigits[i] = c
    THEN UpperDigits[CHOOSE i \in 1..16 : HexDigits[i] = c]
    ELSE c

\* the texts whose tags callers present to the verifier
VerifierTexts == {t \in Texts : t.content.issue \in {None, Some(1)}}

\* what a caller can make of a genuine tag
TagEdits(tag) ==
    { tag,
      [i \in 1..Len(tag) |-> IF i > Len(Prefix) THEN ToUpper(tag[i]) ELSE tag[i]],
      tag \o <<"z">>,
      tag \o <<"z", "z">>,
      tag \o <<"0">>,
      tag \o <<"0", "0">>,
      SubSeq(tag, 1, Len(tag) - 1),
      SubSeq(tag, 1, Len(tag) - 2),
      SubSeq(tag, Len(Prefix) + 1, Len(tag)),
      Prefix \o tag,
      SubSeq(tag, 1, Len(tag) - 1) \o <<"z">>,
      SubSeq(tag, 1, Len(Prefix)) \o <<"z">> \o SubSeq(tag, Len(Prefix) + 2, Len(tag)),
      SubSeq(tag, 1, Len(tag) - 1) \o <<IF tag[Len(tag)] = "0" THEN "1" ELSE "0">> }

FixedTags ==
    { <<>>,
      Prefix,
      <<"i","n","v","a","l","i","d">>,
      Prefix \o <<"i","n","v","a","l","i","d">>,
      <<"s","h","a","1","=","0","0">> }

CandidateTags ==
    FixedTags \cup
        UNION {TagEdits(getSignature(s, t)) : s \in Secrets, t \in VerifierTexts}

NoResponse == [delivery |-> <<>>, status |-> 0, error |-> "", call |-> <<>>]

NoResult == [called |-> FALSE, ret |-> FALSE, threw |-> FALSE, cmp |-> <<>>]

(***************************************************************************)
(* The SQLite table webhook_events.                                        *)
(***************************************************************************)
DeliveryIds == {"d1", "d2"}

\* datetime('now', 'localtime'): the clock cut to whole seconds
DatetimeNow(t) == t \div TicksPerSecond

\* the values bound to the INSERT's placeholders (undefined binds as NULL)
BoundRow(event, payload) ==
    [ id           |-> event.id,
      event        |-> event.event,
      action       |-> event.action,
      issue_number |-> OrUndefined(event.issue_number),
      timestamp    |-> event.timestamp,
      payload      |-> Some(payload) ]

\* the NOT NULL columns: event, action, timestamp, payload
NotNullViolated(r) ==
    r.event = None \/ r.action = None \/ r.timestamp = None \/ r.payload = None

\* (mutant of Conflicts: the new row replaces every row)
ConflictsAlways(old, r) == TRUE

\* (mutant of Conflicts: the table has no primary key)
ConflictsNever(old, r) == FALSE

\* id TEXT PRIMARY KEY: a row conflicts with a new row of the same non-NULL id
Conflicts(old, r) == r.id # None /\ old.id = r.id

\* INSERT OR REPLACE ... VALUES (?, ?, ?, ?, ?, ?, datetime('now', 'localtime')):
\* a NOT NULL violation aborts the statement; rows in conflict on the primary
\* key are deleted and the new row is added.  stored_at is not a column: it
\* records the instant t at which the statement ran, of which created_at keeps
\* the whole seconds, and no query reads it
InsertOrReplace(tbl, r, t) ==
    IF NotNullViolated(r)
    THEN [err |-> TRUE, table |-> tbl, replaced |-> <<>>]
    ELSE [ err      |-> FALSE,
           table    |-> Append(SelectSeq(tbl, LAMBDA old : ~Conflicts(old, r)),
                               [ id           |-> r.id,
                                 event        |-> r.event,
                                 action       |-> r.action,
                                 issue_number |-> r.issue_number,
                                 timestamp    |-> r.timestamp,
                                 payload      |-> r.payload,
                                 created_at   |-> DatetimeNow(t),
                                 stored_at    |-> t ]),
           replaced |-> SelectSeq(tbl, LAMBDA old : Conflicts(old, r)) ]

\* the orders of n rows
RowOrders(n) ==
    {p \in [1..n -> 1..n] : \A i, j \in 1..n : i # j => p[i] # p[j]}

\* ORDER BY created_at DESC: the order of rows of equal created_at is not fixed
OrderedByCreatedAtDesc(rows) ==
    \A i, j \in 1..Len(rows) : i < j => rows[i].created_at >= rows[j].created_at

\* LIMIT ?: a negative limit is no limit
Limit(rows, n) ==
    IF n < 0 \/ n >= Len(rows) THEN rows ELSE SubSeq(rows, 1, n)

\* SELECT ... FROM webhook_events ORDER BY created_at DESC LIMIT ?: the results
\* the database may give
SelectRecent(tbl, n) ==
    { Limit([i \in 1..Len(tbl) |-> tbl[p[i]]], n) :
        p \in {q \in RowOrders(Len(tbl)) :
                   OrderedByCreatedAtDesc([i \in 1..Len(tbl) |-> tbl[q[i]]])} }

\* SELECT ... FROM webhook_events WHERE id = ?, read with db.get: the first
\* row found, if any (id = NULL matches no row)
SelectById(tbl, id) ==
    LET found == SelectSeq(tbl, LAMBDA row : id # None /\ row.id = id)
    IN  IF found = <<>> THEN <<>> ELSE <<found[1]>>

\* the WebhookEvent built from a row
RowToEvent(row) ==
    [ id           |-> row.id,
      event        |-> row.event,
      action       |-> row.action,
      issue_number |-> OrUndefined(row.issue_number),
      timestamp    |-> row.timestamp ]

(***************************************************************************)
(* EventStore.                                                             *)
(***************************************************************************)
\* what getEventById resolves to on a table: <<>> (null) or <<event>>
getEventById(tbl, id) ==
    LET rows == SelectById(tbl, id)
    IN  [i \in 1..Len(rows) |-> RowToEvent(rows[i])]

\* the outcome of an operation: the call, whether its promise rejected (err),
\* whether its statement ran on the database (ran), what console.error printed,
\* and whether a storeEvent of the same id was in flight when it settled
NoOperation ==
    [ op |-> "none", call |-> <<>>, err |-> FALSE, ran |-> FALSE, logged |-> {},
      replaced |-> <<>>, rows |-> <<>>, out |-> <<>>, limit |-> 0, id |-> None,
      racing |-> FALSE ]

\* the modules that construct a GitHubClient of their own
Clients == {"issueRoutes", "commentRoutes"}

\* the REST routes before any request: no client has a snapshot yet
RestIdle ==
    /\ rateLimit = [c \in Clients |-> None]
    /\ api = <<>>

\* the store right after its constructor: the handle is open and the CREATE
\* TABLE is in flight
StoreIdle ==
    /\ now = 0
    /\ init = "pending"
    /\ table = <<>>
    /\ pending = <<>>
    /\ last = NoOperation
    /\ db = "open"

\* initializeDatabase: the CREATE TABLE callback resolves or rejects initPromise
InitializeDatabaseDone ==
    /\ init = "pending"
    /\ \E ok \in BOOLEAN : init' = IF ok THEN "resolved" ELSE "rejected"
    /\ UNCHANGED <<now, table, pending, last, db, verifierVars, resp, restVars>>

\* the clock advances
Tick ==
    /\ now < MaxTime
    /\ now' = now + 1
    /\ UNCHANGED <<init, table, pending, last, db, verifierVars, resp, restVars>>

\* (mutant of waitForInit: the operation does not wait for initPromise)
waitForInitSkipped(p) == "resolved"

\* await this.initPromise: the operation stays suspended while the promise is
\* pending, goes on when it is resolved, throws when it is rejected
waitForInit(p) == p

\* (mutant of HandleRuns: a closed handle still runs statements)
HandleRunsAlways(d) == TRUE

\* sqlite3 runs a statement handed to an open handle; a statement handed to a
\* handle that is closing or closed gets a "Database is closed" error
HandleRuns(d) == d = "open"

\* storeEvent(event, payload) is called: it is suspended at await waitForInit();
\* caught tells whether the caller attached the route's .catch
Enqueue(event, payload, caught) ==
    Append(pending, [event |-> event, payload |-> payload, caught |-> caught,
                     issued |-> FALSE])

\* pending without its i-th call
Dequeue(i) == SubSeq(pending, 1, i - 1) \o SubSeq(pending, i + 1, Len(pending))

\* (mutant of StoreEventLogs: a failed storeEvent prints nothing)
StoreEventLogsNothing(call, ran) == {}

\* what a failed storeEvent prints: db.run's callback, and the route's .catch
StoreEventLogs(call, ran) ==
    (IF ran THEN {"Error storing webhook event"} ELSE {})
        \cup (IF call.caught THEN {"Failed to store webhook event"} ELSE {})

\* a suspended storeEvent resumes on an open handle and hands its INSERT to
\* sqlite3 (it resumes only once the handler in progress has returned)
IssueStoreEvent ==
    /\ resp = NoResponse
    /\ waitForInit(init) = "resolved"
    /\ HandleRuns(db)
    /\ \E i \in 1..Len(pending) :
         /\ ~pending[i].issued
         /\ pending' = [pending EXCEPT ![i].issued = TRUE]
    /\ UNCHANGED <<now, init, table, last, db, verifierVars, resp, restVars>>

\* the INSERT of the i-th call has run: its callback resolves or rejects
SettleStoreEvent(i, ioError) ==
    LET call == pending[i]
        res  == InsertOrReplace(table, BoundRow(call.event, call.payload), now)
        failed == ioError \/ res.err
    IN  /\ table' = IF failed THEN table ELSE res.table
        /\ pending' = Dequeue(i)
        /\ last' = [NoOperation EXCEPT
                       !.op = "storeEvent", !.call = <<call>>, !.err = failed,
                       !.ran = TRUE,
                       !.logged = IF failed THEN StoreEventLogs(call, TRUE) ELSE {},
                       !.replaced = IF failed THEN <<>> ELSE res.replaced,
                       !.racing = \E j \in 1..Len(pending) :
                                     j # i /\ pending[j].event.id = call.event.id]

\* the i-th call rejects without an INSERT: initPromise rejected, or the handle
\* it resumed on is closed
RejectStoreEvent(i) ==
    LET call == pending[i]
        atHandle == waitForInit(init) = "resolved"
    IN  /\ pending' = Dequeue(i)
        /\ last' = [NoOperation EXCEPT
                       !.op = "storeEvent", !.call = <<call>>, !.err = TRUE,
                       !.logged = StoreEventLogs(call, atHandle)]
        /\ UNCHANGED table

\* (a database callback runs only once the handler in progress has returned)
StoreEventSettles ==
    /\ resp = NoResponse
    /\ \E i \in 1..Len(pending) :
         \/ /\ pending[i].issued
            /\ \E ioError \in BOOLEAN : SettleStoreEvent(i, ioError)
         \/ /\ ~pending[i].issued
            /\ \/ waitForInit(init) = "rejected"
               \/ waitForInit(init) = "resolved" /\ db = "closed"
            /\ RejectStoreEvent(i)
    /\ UNCHANGED <<now, init, db, verifierVars, resp, restVars>>

\* the outcome of a read that did not reach the table
FailedRead(op, message) ==
    [NoOperation EXCEPT !.op = op, !.err = TRUE,
        !.logged = IF waitForInit(init) = "resolved" THEN {message} ELSE {}]

\* getEvents(limit), from its call to its result
GetEvents ==
    /\ waitForInit(init) # "pending"
    /\ db # "closing"
    /\ \E n \in (-1)..MaxLimit, ioError \in BOOLEAN :
         IF waitForInit(init) = "rejected" \/ ~HandleRuns(db)
         THEN last' = [FailedRead("getEvents", "Error retrieving webhook events")
                           EXCEPT !.limit = n]
         ELSE IF ioError
         THEN last' = [FailedRead("getEvents", "Error retrieving webhook events")
                           EXCEPT !.limit = n, !.ran = TRUE]
         ELSE \E rows \in SelectRecent(table, n) :
                last' = [NoOperation EXCEPT
                            !.op = "getEvents", !.limit = n, !.ran = TRUE,
                            !.rows = rows,
                            !.out = [i \in 1..Len(rows) |-> RowToEvent(rows[i])]]
    /\ UNCHANGED <<now, init, table, pending, db, verifierVars, resp, restVars>>

\* getEventById(id), from its call to its result (<<>> is null)
GetEventById ==
    /\ waitForInit(init) # "pending"
    /\ db # "closing"
    /\ \E id \in DeliveryIds, ioError \in BOOLEAN :
         IF waitForInit(init) = "rejected" \/ ~HandleRuns(db)
         THEN last' = [FailedRead("getEventById",
                                  "Error retrieving webhook event by ID")
                           EXCEPT !.id = Some(id)]
         ELSE IF ioError
         THEN last' = [FailedRead("getEventById",
                                  "Error retrieving webhook event by ID")
                           EXCEPT !.id = Some(id), !.ran = TRUE]
         ELSE last' = [NoOperation EXCEPT
                          !.op = "getEventById", !.id = Some(id), !.ran = TRUE,
                          !.rows = SelectById(table, Some(id)),
                          !.out = getEventById(table, Some(id))]
    /\ UNCHANGED <<now, init, table, pending, db, verifierVars, resp, restVars>>

\* (mutant of Close: close() on a closed handle rejects and reopens nothing)
CloseRejectsWhenClosed ==
    /\ db # "closing"
    /\ IF db = "open"
       THEN /\ db' = "closing"
            /\ UNCHANGED last
       ELSE /\ last' = [NoOperation EXCEPT !.op = "close", !.err = TRUE,
                                           !.logged = {"Error closing database"}]
            /\ UNCHANGED db
    /\ UNCHANGED <<now, init, table, pending, verifierVars, resp, restVars>>

\* close() is called.  On an open handle sqlite3 starts closing and lets the
\* statements it already holds finish; on a closed handle it gives the callback
\* a "Database is closed" error, which close() prints before it resolves
Close ==
    /\ db # "closing"
    /\ IF db = "open"
       THEN /\ db' = "closing"
            /\ UNCHANGED last
       ELSE /\ last' = [NoOperation EXCEPT !.op = "close",
                                           !.logged = {"Error closing database"}]
            /\ UNCHANGED db
    /\ UNCHANGED <<now, init, table, pending, verifierVars, resp, restVars>>

\* the handle is released once the CREATE TABLE and every INSERT handed to
\* sqlite3 have finished, and close() resolves
CloseDone ==
    /\ db = "closing"
    /\ init # "pending"
    /\ \A i \in 1..Len(pending) : ~pending[i].issued
    /\ db' = "closed"
    /\ last' = [NoOperation EXCEPT !.op = "close"]
    /\ UNCHANGED <<now, init, table, pending, verifierVars, resp, restVars>>

(***************************************************************************)
(* The store used on its own (as its unit tests use it).                   *)
(***************************************************************************)
\* the (action, issue number) pairs of the events direct callers store
StoreShapes == {<<"opened", Some(1)>>, <<"closed", Some(0)>>, <<"closed", None>>}

\* the calls direct callers make: events of the first id that differ in every
\* field from one shape to another, and one event of every other id, each
\* with the payload it arrived in
StoreCalls ==
    { [ event   |-> [ id           |-> Some(c[1]),
                      event        |-> Some(IF c[2][1] = "opened" THEN "issues"
                                                                 ELSE "issue_comment"),
                      action       |-> Some(c[2][1]),
                      issue_number |-> c[2][2],
                      timestamp    |-> Some(IF c[2][1] = "opened" THEN 0 ELSE 1) ],
        payload |-> JsonStringify([action |-> Some(c[2][1]), issue |-> c[2][2]]) ] :
        c \in {x \in DeliveryIds \X StoreShapes :
                   x[1] = "d1" \/ x[2] = <<"opened", Some(1)>>} }

InitStore ==
    /\ StoreIdle
    /\ RestIdle
    /\ secret = "test-secret"
    /\ vpayload = JsonStringify([action |-> None, issue |-> None])
    /\ vsignature = <<>>
    /\ vresult = NoResult
    /\ resp = NoResponse

CallStoreEvent ==
    /\ Len(pending) < MaxPending
    /\ \E c \in StoreCalls : pending' = Enqueue(c.event, c.payload, FALSE)
    /\ UNCHANGED <<now, init, table, last, db, verifierVars, resp, restVars>>

NextStore ==
    \/ InitializeDatabaseDone
    \/ Tick
    \/ CallStoreEvent
    \/ IssueStoreEvent
    \/ StoreEventSettles
    \/ GetEvents
    \/ GetEventById
    \/ Close
    \/ CloseDone

SpecStore == InitStore /\ [][NextStore]_vars

(***************************************************************************)
(* The store written by concurrent callers.                                *)
(***************************************************************************)
\* a caller calls storeEvent while other calls are still in flight
CallStoreEventConcurrently ==
    /\ Len(pending) < MaxWriters
    /\ \E c \in StoreCalls : pending' = Enqueue(c.event, c.payload, FALSE)
    /\ UNCHANGED <<now, init, table, last, db, verifierVars, resp, restVars>>

NextWriters ==
    \/ InitializeDatabaseDone
    \/ CallStoreEventConcurrently
    \/ IssueStoreEvent
    \/ StoreEventSettles
    \/ GetEventById

SpecWriters == InitStore /\ [][NextWriters]_vars

(***************************************************************************)
(* POST /webhook.                                                          *)
(***************************************************************************)
\* (mutant of SupportedEvents: one more kind is let through)
SupportedEventsAndPush == {"issues", "issue_comment", "ping", "push"}

\* the kinds the route lets through
SupportedEvents == {"issues", "issue_comment", "ping"}

\* the route's answer to a delivery received at tick t: the status and error
\* code of the reply, and the storeEvent call it made (<<>> when it made none)
HandleWebhook(d, t) ==
    LET signature == d.signature
        event == d.event
        deliveryId == d.delivery
        body == JsonParse(d.text)
        payload == JsonStringify(body)
    IN  IF signature = None \/ signature = Some(<<>>)
        THEN [status |-> 401, error |-> "UNAUTHORIZED", call |-> <<>>]
        ELSE LET v == verifySignature(secret, payload, signature[1])
             IN  IF v.threw
                 THEN [status |-> 500, error |-> "INTERNAL_ERROR", call |-> <<>>]
                 ELSE IF ~v.ret
                 THEN [status |-> 401, error |-> "UNAUTHORIZED", call |-> <<>>]
                 ELSE IF event = None \/ event[1] \notin SupportedEvents
                 THEN [status |-> 400, error |-> "UNSUPPORTED_EVENT", call |-> <<>>]
                 ELSE IF event = Some("ping")
                 THEN [status |-> 204, error |-> "", call |-> <<>>]
                 ELSE IF body = Undefined
                 THEN [status |-> 500, error |-> "INTERNAL_ERROR", call |-> <<>>]
                 ELSE LET action == body.action
                          issueNumber == body.issue
                          webhookEvent ==
                              [ id           |-> deliveryId,
                                event        |-> event,
                                action       |-> action,
                                issue_number |-> OrUndefined(issueNumber),
                                timestamp    |-> Some(t) ]
                      IN  [ status |-> 204, error |-> "",
                            call |-> <<[event |-> webhookEvent, payload |-> payload]>> ]

\* the texts senders deliver: without an action, without an issue, with the
\* issue numbers 0 and 1, one laid out with spaces, and no body at all
WebhookTexts ==
    { NoBody,
      [content |-> [action |-> None, issue |-> None], fmt |-> "compact"],
      [content |-> [action |-> Some("opened"), issue |-> None], fmt |-> "compact"],
      [content |-> [action |-> Some("opened"), issue |-> Some(0)], fmt |-> "compact"],
      [content |-> [action |-> Some("opened"), issue |-> Some(1)], fmt |-> "compact"],
      [content |-> [action |-> Some("opened"), issue |-> Some(1)], fmt |-> "spaced"] }

\* the x-hub-signature-256 headers senders give a text: none, an empty one,
\* the tag of the text under the service's secret, its tag under another secret
SignatureHeaders ==
    [text \in WebhookTexts |->
        {None, Some(<<>>)} \cup {Some(getSignature(s, text)) : s \in Secrets}]

\* the x-github-event headers senders give
EventHeaders == {None} \cup {Some(k) : k \in SupportedEvents \cup {"push"}}

\* the x-github-delivery headers senders give
DeliveryHeaders == {None, Some("d1")}

\* the text of an issues delivery as the tests send it
OpenedText ==
    [content |-> [action |-> Some("opened"), issue |-> Some(1)], fmt |-> "compact"]

\* the deliveries senders make: every text under every header when signed
\* with the service's secret (issue_comment with one text and id); under any
\* other signature header, every text with the headers of an issues delivery,
\* and one text with every header
Deliveries ==
    { d \in [ signature : UNION {SignatureHeaders[tx] : tx \in WebhookTexts},
              event : EventHeaders, delivery : DeliveryHeaders,
              text : WebhookTexts ] :
        /\ d.signature \in SignatureHeaders[d.text]
        /\ \/ d.signature = Some(getSignature("test-secret", d.text))
           \/ d.event = Some("issues") /\ d.delivery = Some("d1")
           \/ d.text = OpenedText
        /\ d.event = Some("issue_comment") =>
               (d.text = OpenedText /\ d.delivery = Some("d1")) }

\* one delivery is received and answered (the handler runs to its end without
\* awaiting anything); its storeEvent call, if it makes one, is left in flight
PostWebhook ==
    /\ resp = NoResponse
    /\ Len(table) + Len(pending) < MaxRows
    /\ Len(pending) < MaxPending
    /\ \E d \in Deliveries :
         LET r == HandleWebhook(d, now)
         IN  /\ resp' = [delivery |-> <<d>>, status |-> r.status, error |-> r.error,
                         call |-> r.call]
             /\ pending' = IF r.call = <<>> THEN pending
                           ELSE Enqueue(r.call[1].event, r.call[1].payload, TRUE)
    /\ UNCHANGED <<now, init, table, last, db, verifierVars, restVars>>

\* the reply has left; the route is ready for the next delivery
ReplySent ==
    /\ resp # NoResponse
    /\ resp' = NoResponse
    /\ UNCHANGED <<storeVars, verifierVars, restVars>>

Init ==
    /\ StoreIdle
    /\ RestIdle
    /\ secret = "test-secret"
    /\ vpayload = JsonStringify([action |-> None, issue |-> None])
    /\ vsignature = <<>>
    /\ vresult = NoResult
    /\ resp = NoResponse

Next ==
    \/ InitializeDatabaseDone
    \/ PostWebhook
    \/ ReplySent
    \/ IssueStoreEvent
    \/ StoreEventSettles

Spec == Init /\ [][Next]_vars

\* POST /webhook under Node's scheduling: the reply in progress is sent, the
\* CREATE TABLE callback runs, and a suspended or issued storeEvent call is
\* resumed or settled before further requests can keep it waiting for ever
SpecFair ==
    /\ Init /\ [][Next]_vars
    /\ WF_vars(InitializeDatabaseDone)
    /\ WF_vars(ReplySent)
    /\ SF_vars(IssueStoreEvent)
    /\ SF_vars(StoreEventSettles)

(***************************************************************************)
(* The verifier used on its own (as its unit tests use it).                *)
(***************************************************************************)
InitVerifier ==
    /\ secret \in Secrets
    /\ vpayload \in VerifierTexts
    /\ vsignature = <<>>
    /\ vresult = NoResult
    /\ StoreIdle
    /\ RestIdle
    /\ resp = NoResponse

\* the caller picks the payload it will verify
ChoosePayload ==
    /\ \E t \in VerifierTexts : vpayload' = t
    /\ vresult' = NoResult
    /\ UNCHANGED <<secret, vsignature, storeVars, resp, restVars>>

\* the caller obtains a tag from getSignature
CallGetSignature ==
    /\ \E t \in VerifierTexts : vsignature' = getSignature(secret, t)
    /\ vresult' = NoResult
    /\ UNCHANGED <<secret, vpayload, storeVars, resp, restVars>>

\* the caller presents a tag of its own making
ChooseSignature ==
    /\ \E tag \in CandidateTags : vsignature' = tag
    /\ vresult' = NoResult
    /\ UNCHANGED <<secret, vpayload, storeVars, resp, restVars>>

CallVerifySignature ==
    /\ vresult' = [called |-> TRUE] @@ verifySignature(secret, vpayload, vsignature)
    /\ UNCHANGED <<secret, vpayload, vsignature, storeVars, resp, restVars>>

NextVerifier ==
    \/ ChoosePayload
    \/ CallGetSignature
    \/ ChooseSignature
    \/ CallVerifySignature

SpecVerifier == InitVerifier /\ [][NextVerifier]_vars

(***************************************************************************)
(* GET /events.                                                            *)
(***************************************************************************)
DecDigits == <<"0", "1", "2", "3", "4", "5", "6", "7", "8", "9">>

IsDigit(c) == \E i \in 1..Len(DecDigits) : DecDigits[i] = c

DigitVal(c) == (CHOOSE i \in 1..Len(DecDigits) : DecDigits[i] = c) - 1

\* the string without its leading white space
RECURSIVE TrimStart(_)
TrimStart(str) ==
    IF str # <<>> /\ str[1] = " " THEN TrimStart(Tail(str)) ELSE str

\* the decimal digits a string begins with
RECURSIVE LeadingDigits(_)
LeadingDigits(str) ==
    IF str # <<>> /\ IsDigit(str[1])
    THEN <<str[1]>> \o LeadingDigits(Tail(str))
    ELSE <<>>

\* the number a sequence of decimal digits writes
RECURSIVE DecValue(_)
DecValue(ds) ==
    IF ds = <<>> THEN 0
    ELSE 10 * DecValue(SubSeq(ds, 1, Len(ds) - 1)) + DigitVal(ds[Len(ds)])

\* parseInt(str, 10): white space is skipped, a sign is read, then the digits
\* up to the first character that is not one; <<>> is NaN
ParseInt(str) ==
    LET t == TrimStart(str)
        signed == t # <<>> /\ t[1] \in {"+", "-"}
        ds == LeadingDigits(IF signed THEN Tail(t) ELSE t)
    IN  IF ds = <<>> THEN None
        ELSE Some(IF signed /\ t[1] = "-" THEN 0 - DecValue(ds) ELSE DecValue(ds))

\* the limit used when the query has none
DefaultLimit == 50

\* the largest limit the route lets through
LimitCeiling == 100

\* the handler's decision on the limit parameter of the query (None when the
\* query has none): the limit it calls getEvents with, or <<>> for a 400
EventsLimit(limit) ==
    LET limitNumber == IF limit = None \/ limit = Some(<<>>)
                       THEN Some(DefaultLimit)
                       ELSE ParseInt(limit[1])
    IN  IF limitNumber = None \/ limitNumber[1] < 1 \/ limitNumber[1] > LimitCeiling
        THEN <<>>
        ELSE limitNumber

\* the limit parameters clients send: none, empty, numbers inside and outside
\* the range, and strings that are not the decimal writing of an integer
LimitQueries ==
    { None, Some(<<>>), Some(<<"1">>), Some(<<"2">>), Some(<<"1", "0", "0">>),
      Some(<<"1", "0", "1">>), Some(<<"0">>), Some(<<"-", "1">>),
      Some(<<"a", "b", "c">>), Some(<<"2", "a", "b", "c">>),
      Some(<<"1", ".", "5">>), Some(<<" ", "2">>), Some(<<"1", "e", "3">>) }

\* GET /events?limit=..., from the request to the reply
GetEventsRoute ==
    /\ api = <<>>
    /\ waitForInit(init) # "pending"
    /\ \E q \in LimitQueries, ioError \in BOOLEAN :
         LET n == EventsLimit(q)
             answer == [route |-> "GET /events", request |-> q, call |-> n]
         IN  IF n = <<>>
             THEN /\ api' = <<answer @@ [status |-> 400, error |-> "VALIDATION_ERROR",
                                        body |-> <<>>]>>
                  /\ UNCHANGED last
             ELSE IF waitForInit(init) = "rejected" \/ ~HandleRuns(db) \/ ioError
             THEN /\ api' = <<answer @@ [status |-> 500, error |-> "INTERNAL_ERROR",
                                        body |-> <<>>]>>
                  /\ last' = [FailedRead("getEvents", "Error retrieving webhook events")
                                  EXCEPT !.limit = n[1],
                                         !.ran = waitForInit(init) = "resolved"
                                                     /\ HandleRuns(db)]
             ELSE \E rows \in SelectRecent(table, n[1]) :
                    LET events == [i \in 1..Len(rows) |-> RowToEvent(rows[i])]
                    IN  /\ api' = <<answer @@ [status |-> 200, error |-> "",
                                              body |-> events]>>
                        /\ last' = [NoOperation EXCEPT
                                       !.op = "getEvents", !.limit = n[1],
                                       !.ran = TRUE, !.rows = rows, !.out = events]
    /\ UNCHANGED <<now, init, table, pending, db, verifierVars, resp, rateLimit>>

\* the reply has left; the route is ready for the next request
ApiReplySent ==
    /\ api # <<>>
    /\ api' = <<>>
    /\ UNCHANGED <<storeVars, verifierVars, resp, rateLimit>>

NextEvents ==
    \/ InitializeDatabaseDone
    \/ CallStoreEvent
    \/ IssueStoreEvent
    \/ StoreEventSettles
    \/ GetEventsRoute
    \/ ApiReplySent

SpecEvents == InitStore /\ [][NextEvents]_vars

(***************************************************************************)
(* GitHubClient, and the routes that call it.                              *)
(***************************************************************************)
\* An error message is the sequence of its words; a number is one word.
\* message.includes(words)
Includes(message, words) ==
    \E i \in 0..(Len(message) - Len(words)) :
        SubSeq(message, i + 1, i + Len(words)) = words

\* the statuses the upstream API answers with; 0 stands for a request that got
\* no response (network failure)
UpstreamStatuses == {200, 400, 401, 403, 404, 422, 429, 500, 503}

NoUpstreamResponse == 0

\* the decimal writing of a status
StatusWord(s) ==
    CASE s = 200 -> "200" [] s = 201 -> "201" [] s = 400 -> "400"
      [] s = 401 -> "401" [] s = 403 -> "403" [] s = 404 -> "404"
      [] s = 422 -> "422" [] s = 429 -> "429" [] s = 500 -> "500"
      [] s = 503 -> "503"

\* the message of the error axios rejects with
AxiosErrorMessage(s) ==
    IF s = NoUpstreamResponse
    THEN <<"getaddrinfo", "ENOTFOUND", "api.github.com">>
    ELSE <<"Request", "failed", "with", "status", "code", StatusWord(s)>>

RateLimitMessage ==
    <<"Rate", "limit", "exceeded", ".", "Retry", "after", "n", "seconds">>

\* the x-ratelimit-* headers of a response: each absent or a string
NoRateHeaders ==
    [limit |-> None, remaining |-> None, reset |-> None, used |-> None]

\* the rate headers upstream responses carry: none, a quota with requests
\* left, and a spent quota that resets at second 0 or at second 1
RateHeaders ==
    {NoRateHeaders}
        \cup { [limit |-> Some(<<"1">>), remaining |-> Some(<<x[1]>>),
                reset |-> Some(<<x[2]>>),
                used |-> Some(<<IF x[1] = "1" THEN "0" ELSE "1">>)] :
               x \in {<<"1", "1">>, <<"0", "0">>, <<"0", "1">>} }

\* headers[name] || '0'
OrZero(h) == IF h = None \/ h = Some(<<>>) THEN <<"0">> ELSE h[1]

\* updateRateLimit: the snapshot taken from a response's headers (a field is
\* <<>> when parseInt gave NaN)
updateRateLimit(headers) ==
    Some([limit |-> ParseInt(OrZero(headers.limit)),
          remaining |-> ParseInt(OrZero(headers.remaining)),
          reset |-> ParseInt(OrZero(headers.reset)),
          used |-> ParseInt(OrZero(headers.used))])

\* checkRateLimit throws: there is a snapshot and its remaining is <= 0
\* (NaN <= 0 is false)
checkRateLimit(rl) ==
    rl # None /\ rl[1].remaining # None /\ rl[1].remaining[1] <= 0

\* the response interceptor: the snapshot after a request with upstream
\* status s and rate headers h (an error without response leaves it alone)
Intercepted(rl, s, h) ==
    IF s = NoUpstreamResponse THEN rl ELSE updateRateLimit(h)

\* makeRequest's catch: the message of the error it throws for status s
MakeRequestError(s) ==
    IF s = 429 THEN RateLimitMessage ELSE AxiosErrorMessage(s)

\* handleError on an Error that is not a ValidationError
handleError(message) ==
    IF Includes(message, <<"Rate", "limit", "exceeded">>)
    THEN [status |-> 429, error |-> "RATE_LIMIT_EXCEEDED"]
    ELSE IF Includes(message, <<"Not", "Found">>) \/ Includes(message, <<"404">>)
    THEN [status |-> 404, error |-> "NOT_FOUND"]
    ELSE IF Includes(message, <<"Unauthorized">>) \/ Includes(message, <<"401">>)
    THEN [status |-> 401, error |-> "UNAUTHORIZED"]
    ELSE IF Includes(message, <<"Forbidden">>) \/ Includes(message, <<"403">>)
    THEN [status |-> 403, error |-> "FORBIDDEN"]
    ELSE [status |-> 500, error |-> "INTERNAL_ERROR"]

\* A Link header value is a sequence of words: entries <url>; rel="r"
\* separated by commas.
LinkEntry(url, rel) == <<"<", url, ">", ";", "rel=", rel>>

\* linkHeader.split(',')
RECURSIVE SplitAtCommas(_)
SplitAtCommas(words) ==
    IF \E i \in 1..Len(words) : words[i] = ","
    THEN LET i == CHOOSE j \in 1..Len(words) :
                      words[j] = "," /\ \A k \in 1..(j - 1) : words[k] # ","
         IN  <<SubSeq(words, 1, i - 1)>>
                 \o SplitAtCommas(SubSeq(words, i + 1, Len(words)))
    ELSE <<words>>

\* entry.match(/<([^>]+)>\s*;\s*rel="([^"]+)"/): <<url, rel>> of the first
\* match, <<>> when there is none
MatchEntry(entry) ==
    LET at(i) == /\ entry[i] = "<" /\ entry[i + 1] \notin {">", ",", ";"}
                 /\ entry[i + 2] = ">" /\ entry[i + 3] = ";"
                 /\ entry[i + 4] = "rel="
        hits == {i \in 1..(Len(entry) - 5) : at(i)}
    IN  IF hits = {} THEN <<>>
        ELSE LET i == CHOOSE j \in hits : \A k \in hits : j <= k
             IN  <<entry[i + 1], entry[i + 5]>>

\* parseLinkHeader: the urls by rel; a later entry of a rel replaces an
\* earlier one
RECURSIVE LinksOf(_)
LinksOf(entries) ==
    IF entries = <<>> THEN <<>>
    ELSE LET n == Len(entries)
             before == LinksOf(SubSeq(entries, 1, n - 1))
             m == MatchEntry(entries[n])
         IN  IF m = <<>> THEN before
             ELSE SelectSeq(before, LAMBDA l : l[2] # m[2]) \o <<m>>

parseLinkHeader(linkHeader) ==
    IF linkHeader = <<>> THEN <<>> ELSE LinksOf(SplitAtCommas(linkHeader))

\* links[rel], <<>> when the rel is not there
LinkOfRel(links, rel) ==
    LET found == SelectSeq(links, LAMBDA l : l[2] = rel)
    IN  IF found = <<>> THEN None ELSE Some(<<found[1][1]>>)

\* extractPaginationFromResponse
extractPaginationFromResponse(link) ==
    IF link = None \/ link = Some(<<>>) THEN <<>> ELSE parseLinkHeader(link[1])

\* the Link header GET /issues sets on its reply: paginationHeaders['link']
ForwardedLink(link) == LinkOfRel(extractPaginationFromResponse(link), "link")

\* the X-Total-Count header GET /issues sets on its reply
ForwardedTotalCount(link) ==
    LinkOfRel(extractPaginationFromResponse(link), "x-total-count")

\* the Link headers upstream responses carry: none, one entry, two entries,
\* and an entry whose rel is "link"
LinkHeaders ==
    { None,
      Some(LinkEntry("page2", "next")),
      Some(LinkEntry("page2", "next") \o <<",">> \o LinkEntry("page5", "last")),
      Some(LinkEntry("page2", "link")) }

\* what the upstream API does with a request: a status (or no response), rate
\* headers, and on a success possibly a Link header
UpstreamReplies ==
    { [status |-> s, headers |-> h, link |-> l] :
          s \in UpstreamStatuses, h \in RateHeaders, l \in LinkHeaders }

\* the quota headers of a response that leaves requests to spend
QuotaLeft ==
    [limit |-> Some(<<"1">>), remaining |-> Some(<<"1">>),
     reset |-> Some(<<"1">>), used |-> Some(<<"0">>)]

UpstreamOutcomes ==
    { u \in UpstreamReplies :
          u.link = None \/ (u.status = 200 /\ u.headers = QuotaLeft) }
        \cup { [status |-> NoUpstreamResponse, headers |-> NoRateHeaders,
                link |-> None] }

IssueRouteNames ==
    {"POST /issues", "GET /issues", "GET /issues/:number", "PATCH /issues/:number"}

\* the status a route replies with when the client call succeeded
SuccessStatus(route) ==
    IF route \in {"POST /issues", "POST /issues/:number/comments"} THEN 201 ELSE 200

\* One request to a route over the client c, from the request to the reply:
\* validation, checkRateLimit, the upstream request, the interceptor,
\* makeRequest's catch, and the route's reply or handleError.
RestRoute(route, c) ==
    LET answer == [route |-> route, client |-> c, valid |-> TRUE,
                   sent |-> FALSE, upstream |-> NoUpstreamResponse,
                   headers |-> NoRateHeaders, upstreamLink |-> None,
                   link |-> None, total |-> None]
    IN  \/ /\ api' = <<[answer EXCEPT !.valid = FALSE]
                          @@ [status |-> 400, error |-> "VALIDATION_ERROR"]>>
           /\ UNCHANGED rateLimit
        \/ /\ checkRateLimit(rateLimit[c])
           /\ api' = <<answer @@ handleError(RateLimitMessage)>>
           /\ UNCHANGED rateLimit
        \/ /\ ~checkRateLimit(rateLimit[c])
           /\ \E u \in UpstreamOutcomes :
                LET sent == [answer EXCEPT !.sent = TRUE, !.upstream = u.status,
                                           !.headers = u.headers,
                                           !.upstreamLink = u.link]
                    listing == route = "GET /issues"
                IN  /\ rateLimit' = [rateLimit EXCEPT
                                        ![c] = Intercepted(@, u.status, u.headers)]
                    /\ IF u.status = 200
                       THEN api' = <<[sent EXCEPT
                                         !.link = IF listing
                                                  THEN ForwardedLink(u.link)
                                                  ELSE None,
                                         !.total = IF listing
                                                   THEN ForwardedTotalCount(u.link)
                                                   ELSE None]
                                       @@ [status |-> SuccessStatus(route),
                                           error |-> ""]>>
                       ELSE api' = <<sent @@ handleError(MakeRequestError(u.status))>>

IssueRoutes ==
    /\ \E route \in IssueRouteNames : RestRoute(route, "issueRoutes")
    /\ UNCHANGED <<storeVars, verifierVars, resp>>

CommentRoutes ==
    /\ RestRoute("POST /issues/:number/comments", "commentRoutes")
    /\ UNCHANGED <<storeVars, verifierVars, resp>>

NextClient ==
    \/ Tick
    \/ IssueRoutes
    \/ CommentRoutes
    \/ ApiReplySent

SpecClient == InitStore /\ [][NextClient]_vars

(***************************************************************************)
(* Properties of WebhookVerifier (under SpecVerifier).                     *)
(***************************************************************************)
\* C1: for every payload and every secret, verifySignature returns true on
\* the payload and the tag getSignature returned for that payload.
C1_GenuineTagVerifies ==
    (vresult.called /\ vsignature = getSignature(secret, vpayload))
        => (vresult.ret /\ ~vresult.threw)

C1_Witness ==
    vresult.called /\ vsignature = getSignature(secret, vpayload) /\ vresult.ret

\* C2: for a fixed secret, the tag getSignature returned for one payload does
\* not verify against a different payload.
C2_TagOfOtherPayloadRejected ==
    \A t \in VerifierTexts :
        (vresult.called /\ t # vpayload /\ vsignature = getSignature(secret, t))
            => ~vresult.ret

C2_Witness ==
    /\ vresult.called
    /\ ~vresult.ret
    /\ vresult.cmp # <<>>
    /\ \E t \in VerifierTexts : t # vpayload /\ vsignature = getSignature(secret, t)

\* a tag that is not "sha256=" followed by 2 * DigestBytes hexadecimal digits
Malformed(tag) ==
    \/ tag = <<>>
    \/ ~StartsWith(tag, Prefix)
    \/ \E i \in (Len(Prefix) + 1)..Len(tag) : ~IsHexChar(tag[i])
    \/ Len(tag) # Len(Prefix) + 2 * DigestBytes

\* C3: verifySignature never throws, returns false for every candidate tag that
\* is empty, lacks the prefix, is not hexadecimal or has the wrong length, and
\* reaches timingSafeEqual only with two buffers of equal length.
C3_MalformedTagRejected ==
    vresult.called =>
        /\ ~vresult.threw
        /\ Malformed(vsignature) => ~vresult.ret
        /\ vresult.cmp # <<>> => vresult.cmp[1] = vresult.cmp[2]

\* a candidate with the prefix whose decoded length is the digest's
WellFormed(tag) ==
    /\ StartsWith(tag, Prefix)
    /\ SameLength(BufferFromHex(RemoveFirst(tag, Prefix)),
                  BufferFromHex(HexEncode(Hmac(secret, vpayload))))

\* the number of bytes of a well-formed candidate that match the digest
MatchingBytes(tag) ==
    LET expectedBuffer == BufferFromHex(RemoveFirst(tag, Prefix))
        calculatedBuffer == Hmac(secret, vpayload)
    IN  Cardinality({i \in 1..DigestBytes : expectedBuffer[i] = calculatedBuffer[i]})

C26_OnlyExactTagVerifies ==
    (vresult.called /\ vresult.ret) => vsignature = getSignature(secret, vpayload)

\* (what holds instead: a candidate verifies only when it has the prefix and
\* its hex digits decode to the digest; a repeated prefix is rejected)
OnlyDecodingToDigestVerifies ==
    vresult.called =>
        /\ vresult.ret =>
               /\ StartsWith(vsignature, Prefix)
               /\ BufferFromHex(RemoveFirst(vsignature, Prefix)) = Hmac(secret, vpayload)
        /\ StartsWith(vsignature, Prefix \o Prefix) => ~vresult.ret

(***************************************************************************)
(* Properties of POST /webhook (under Spec).                               *)
(***************************************************************************)
\* a delivery has just been answered
Answered == resp # NoResponse

\* the signature header of a delivery authenticates the body it carries
Verified(d) ==
    /\ d.signature # None
    /\ verifySignature(secret, JsonStringify(JsonParse(d.text)), d.signature[1]).ret

StoredKinds == {Some("issues"), Some("issue_comment")}

\* C4: storeEvent is invoked only for deliveries whose signature verified and
\* whose kind is issues or issue_comment; a verified ping is answered 204
\* without a store write; no other kind reaches the store.
C4_OnlyVerifiedSupportedStored ==
    /\ Answered =>
         LET d == resp.delivery[1]
         IN  /\ resp.call # <<>> => (Verified(d) /\ d.event \in StoredKinds)
             /\ (Verified(d) /\ d.event = Some("ping"))
                    => (resp.status = 204 /\ resp.call = <<>>)
    /\ \A i \in 1..Len(pending) : pending[i].event.event \in StoredKinds
    /\ \A i \in 1..Len(table) : table[i].event \in StoredKinds

C4_Witness ==
    /\ Answered
    /\ Verified(resp.delivery[1])
    /\ resp.delivery[1].event = Some("ping")
    /\ resp.status = 204
    /\ table # <<>>

\* C5: a delivery without a signature header is answered 401, one without an
\* event-kind or delivery-id header is answered 400, and storeEvent is never
\* called with an absent delivery id or event kind.
C5_MissingHeadersRejected ==
    Answered =>
        LET d == resp.delivery[1]
        IN  /\ d.signature = None => resp.status = 401
            /\ (Verified(d) /\ (d.event = None \/ d.delivery = None))
                   => resp.status = 400
            /\ resp.call # <<>> =>
                   (resp.call[1].event.id # None /\ resp.call[1].event.event # None)

\* C6: every stored record has an event kind and an action, and a signed
\* delivery of an allowed kind whose payload has no action is answered with a
\* client error and is not handed to storeEvent (stated for the deliveries
\* that carry their delivery id, those without one being C5's).
C6_MalformedPayloadRejected ==
    /\ \A i \in 1..Len(table) : table[i].event # None /\ table[i].action # None
    /\ Answered =>
         LET d == resp.delivery[1]
         IN  ( /\ Verified(d)
               /\ d.event \in StoredKinds
               /\ d.delivery # None
               /\ JsonParse(d.text).action = None )
                 => (resp.status = 400 /\ resp.call = <<>>)

\* the delivery carries a signature header, and it does not verify
PresentNotVerifying(d) ==
    d.signature \notin {None, Some(<<>>)} /\ ~Verified(d)

\* C27: the signature check precedes every other decision: a delivery whose
\* signature is present but does not verify is answered 401, whatever its
\* event-kind header, its delivery-id header and its payload, and nothing is
\* stored.
C27_SignatureCheckedFirst ==
    (Answered /\ PresentNotVerifying(resp.delivery[1]))
        => (resp.status = 401 /\ resp.call = <<>>)

\* (what holds instead: such a delivery is answered 401 when it has a body, 401
\* or 500 when it has none, and in no case is anything stored)
SignatureCheckedFirstOnBodies ==
    (Answered /\ PresentNotVerifying(resp.delivery[1])) =>
        /\ resp.call = <<>>
        /\ resp.delivery[1].text # NoBody => resp.status = 401
        /\ resp.status \in {401, 500}

(***************************************************************************)
(* Properties of POST /webhook under fair scheduling (under SpecFair).     *)
(***************************************************************************)
\* the route has just answered 204 to a delivery it handed to storeEvent under
\* the delivery id given (<<>> for a delivery without the header)
Acknowledged(id) ==
    Answered /\ resp.status = 204 /\ resp.call # <<>> /\ resp.call[1].event.id = id

\* the write of a delivery with this id was rejected
WriteRejected(id) ==
    last.op = "storeEvent" /\ last.err /\ last.call[1].event.id = id

\* getEventById returns an event for the id, and GET /events lists one with
\* the id in whichever order the database gives
Readable(id) ==
    /\ getEventById(table, id) # <<>>
    /\ \A rows \in SelectRecent(table, DefaultLimit) :
           \E i \in 1..Len(rows) : rows[i].id = id

\* C28: every delivery of kind issues or issue_comment acknowledged with 204
\* is, unless its write is rejected, eventually returned by getEventById for
\* its delivery id and listed by GET /events, although the acknowledgement
\* does not wait for the write.
C28_AcknowledgedEventuallyReadable ==
    \A id \in DeliveryHeaders :
        Acknowledged(id) ~> (WriteRejected(id) \/ Readable(id))

\* (what holds instead: this is so for the deliveries that carry a delivery id)
AcknowledgedWithIdEventuallyReadable ==
    \A id \in DeliveryHeaders \ {None} :
        Acknowledged(id) ~> (WriteRejected(id) \/ Readable(id))

(***************************************************************************)
(* Properties of EventStore (under SpecStore).                             *)
(***************************************************************************)
\* the last operation was a storeEvent that succeeded
Stored == last.op = "storeEvent" /\ ~last.err

\* the event and payload of the last storeEvent
LastEvent == last.call[1].event

\* C7: after storeEvent(e1) and then storeEvent(e2) with the same id and other
\* fields different, getEventById(id) returns exactly e2's fields.
C7_ReplacedByLatest ==
    (Stored /\ last.replaced # <<>> /\ RowToEvent(last.replaced[1]) # LastEvent)
        => getEventById(table, LastEvent.id) = <<LastEvent>>

\* C8: there is at most one record per delivery id, and getEvents never lists
\* the same id twice.
C8_OneRecordPerId ==
    /\ \A i, j \in 1..Len(table) :
         (table[i].id # None /\ table[i].id = table[j].id) => i = j
    /\ (last.op = "getEvents" /\ ~last.err) =>
         \A i, j \in 1..Len(last.out) :
             (last.out[i].id # None /\ last.out[i].id = last.out[j].id) => i = j

C8_Witness ==
    /\ Stored
    /\ last.replaced # <<>>
    /\ Len(table) = 2

\* what callers can observe of the stored events: the ids, how many records
\* there are, and what getEventById returns for each id
Observable(tbl) ==
    [ ids   |-> {tbl[i].id : i \in 1..Len(tbl)},
      count |-> Len(tbl),
      byId  |-> [id \in DeliveryIds |-> getEventById(tbl, Some(id))] ]

\* C9: a storeEvent(e, p) that follows a storeEvent(e, p) of the same event and
\* payload leaves the observable state as the first one left it.
C9_StoreTwiceSameAsOnce ==
    [][ ( /\ Stored
          /\ Len(pending') < Len(pending)
          /\ last'.op = "storeEvent"
          /\ ~last'.err
          /\ last'.call = last.call )
        => Observable(table') = Observable(table) ]_vars

\* the same call has been stored twice in a row, a second apart
C9_Witness ==
    /\ Stored
    /\ last.replaced # <<>>
    /\ RowToEvent(last.replaced[1]) = LastEvent
    /\ last.replaced[1].payload = Some(last.call[1].payload)
    /\ last.replaced[1].created_at < table[Len(table)].created_at

\* the id of row a of the table is listed by the last getEvents at position i
ListedAt(a, i) == i \in 1..Len(last.out) /\ last.out[i].id = table[a].id

\* C10: events stored at distinct times are listed by getEvents(n) most
\* recently recorded first (when it drops events it drops the oldest), and
\* getEvents(n) never lists more than n of them.
C10_RecentFirstWithinLimit ==
    (last.op = "getEvents" /\ ~last.err /\ last.limit >= 1) =>
        /\ Len(last.out) <= last.limit
        /\ \A a, b \in 1..Len(table) :
             table[a].stored_at < table[b].stored_at =>
                 \A i \in 1..Len(last.out) :
                     ListedAt(a, i) => \E j \in 1..(i - 1) : ListedAt(b, j)

\* what getEvents(n) does give: min(n, rows) events, and of two events whose
\* created_at (whole seconds) differ the one recorded later comes first
RecentFirstAcrossSeconds ==
    (last.op = "getEvents" /\ ~last.err /\ last.limit >= 1) =>
        /\ Len(last.out) = IF Len(table) < last.limit THEN Len(table) ELSE last.limit
        /\ \A a, b \in 1..Len(table) :
             table[a].created_at < table[b].created_at =>
                 \A i \in 1..Len(last.out) :
                     ListedAt(a, i) => \E j \in 1..(i - 1) : ListedAt(b, j)

\* C11: when an id already stored is stored again, its recorded-at time moves
\* to the second write, so the getEvents that follows lists the event before
\* every event stored between its first and its second write.
C11_RedeliveredListedFirst ==
    [][ ( /\ Stored
          /\ last.replaced # <<>>
          /\ last'.op = "getEvents"
          /\ ~last'.err
          /\ last'.limit >= 1 )
        => LET new == table[Len(table)]
               old == last.replaced[1]
           IN  /\ new.created_at = DatetimeNow(new.stored_at)
               /\ \A b \in 1..(Len(table) - 1) :
                    ( /\ old.stored_at < table[b].stored_at
                      /\ table[b].stored_at < new.stored_at )
                    => \E i \in 1..Len(last'.out) :
                         /\ last'.out[i].id = new.id
                         /\ \A j \in 1..Len(last'.out) :
                              last'.out[j].id = table[b].id => i < j ]_vars

\* an id has a record in the table tbl
Held(tbl, id) == getEventById(tbl, Some(id)) # <<>>

\* C12: the store never deletes an event: once storeEvent has succeeded for an
\* id, the id keeps a record whatever operation runs next, and every later
\* getEventById of the id that gives a result gives a record, never null.
C12_NeverDeleted ==
    [][ \A id \in DeliveryIds :
          /\ (table' # table /\ Held(table, id)) => Held(table', id)
          /\ ( /\ last'.op = "storeEvent"
               /\ ~last'.err
               /\ Len(pending') < Len(pending)
               /\ last'.call[1].event.id = Some(id) ) => Held(table', id)
          /\ ( /\ last'.op = "getEventById"
               /\ ~last'.err
               /\ last'.id = Some(id)
               /\ Held(table, id) ) => last'.out # <<>> ]_vars

\* an id stored before another id was stored is read back after it
C12_Witness ==
    /\ last.op = "getEventById"
    /\ ~last.err
    /\ Len(table) = 2
    /\ last.id = table[1].id
    /\ last.out # <<>>

\* C13: storeEvent(e, p) followed by getEventById(e.id) gives a record equal to
\* e, for every value of the optional issue number; getEventById of an id never
\* stored gives null and no error.
C13_StoredReadBackEqual ==
    /\ Stored => getEventById(table, LastEvent.id) = <<LastEvent>>
    /\ ( /\ last.op = "getEventById"
         /\ last.ran
         /\ ~last.err
         /\ ~Held(table, last.id[1]) ) => last.out = <<>>

\* what does hold: an event is read back equal to itself unless its issue
\* number is 0, and an id that has no record reads as null
StoredReadBackEqualUnlessZero ==
    /\ (Stored /\ LastEvent.issue_number # Some(0))
           => getEventById(table, LastEvent.id) = <<LastEvent>>
    /\ ( /\ last.op = "getEventById"
         /\ last.ran
         /\ ~last.err
         /\ ~Held(table, last.id[1]) ) => last.out = <<>>

(***************************************************************************)
(* Properties of POST /webhook and the store behind it (under Spec).       *)
(***************************************************************************)
\* C14: the issue number stored for a delivery is absent exactly when the
\* payload has no issue number, and otherwise is the payload's issue number.
C14_IssueNumberAsInPayload ==
    \A i \in 1..Len(table) :
        table[i].issue_number = JsonParse(table[i].payload[1]).issue

\* what does hold: the stored issue number is the payload's unless that is 0
IssueNumberAsInPayloadUnlessZero ==
    \A i \in 1..Len(table) :
        JsonParse(table[i].payload[1]).issue # Some(0)
            => table[i].issue_number = JsonParse(table[i].payload[1]).issue

\* the delivery answered last carries the tag of the text it was sent as,
\* computed with the service's secret
SignedAsSent ==
    /\ Answered
    /\ resp.delivery[1].signature
           = Some(getSignature(secret, resp.delivery[1].text))

\* C15: the signature is verified over the body as the sender serialized it,
\* and that same text is handed to storeEvent: a delivery signed over the text
\* it was sent as is accepted whatever the layout of that text.
C15_VerifiedAndStoredVerbatim ==
    SignedAsSent =>
        /\ resp.status # 401
        /\ resp.call # <<>> => resp.call[1].payload = resp.delivery[1].text

\* what does hold: a delivery signed over the text JSON.stringify gives for
\* its parsed body is accepted, and that text is what storeEvent is handed
VerifiedAndStoredRestringified ==
    ( /\ Answered
      /\ resp.delivery[1].signature = Some(getSignature(secret,
             JsonStringify(JsonParse(resp.delivery[1].text)))) ) =>
        /\ resp.status # 401
        /\ resp.call # <<>> =>
             resp.call[1].payload = JsonStringify(JsonParse(resp.delivery[1].text))

StoreOperations == {"storeEvent", "getEvents", "getEventById"}

\* C17: storeEvent, getEvents and getEventById succeed only while the handle
\* is not closed: an operation that settles after close() has completed
\* rejects, runs no statement and leaves the table as it was.
C17_ClosedStoreRejects ==
    [][ (db = "closed" /\ last' # last /\ last'.op \in StoreOperations) =>
            /\ last'.err
            /\ ~last'.ran
            /\ last'.out = <<>>
            /\ table' = table ]_vars

\* a read of a closed store that holds events has failed
C17_Witness ==
    /\ db = "closed"
    /\ table # <<>>
    /\ last.op = "getEvents"
    /\ last.err
    /\ ~last.ran

\* C18: close() on a store that is already closed completes without an error
\* (its promise resolves) and leaves the store closed.
C18_CloseIdempotent ==
    [][ (db = "closed" /\ last' # last /\ last'.op = "close") =>
            /\ ~last'.err
            /\ db' = "closed"
            /\ table' = table
            /\ pending' = pending ]_vars

\* close() has been called on a closed store
C18_Witness ==
    /\ db = "closed"
    /\ last.op = "close"
    /\ ~last.err
    /\ last.logged = {"Error closing database"}

\* C19: no statement of storeEvent, getEvents or getEventById reaches the
\* database before the CREATE TABLE has completed; when the CREATE TABLE has
\* failed every such operation fails and none runs on the database.
C19_NothingBeforeSchema ==
    /\ \A i \in 1..Len(pending) : pending[i].issued => init = "resolved"
    /\ last.ran => init = "resolved"
    /\ init = "pending" => last.op \notin StoreOperations
    /\ init = "rejected" =>
          /\ table = <<>>
          /\ last.op \in StoreOperations => (last.err /\ ~last.ran)

\* an operation has failed on a store whose CREATE TABLE failed
C19_Witness ==
    /\ init = "rejected"
    /\ last.op = "storeEvent"
    /\ last.err
    /\ ~last.ran

\* C20: when close() is called while operations are in flight, each of them
\* completes or fails before the handle is released: no operation is still
\* in flight when the handle is closed.
C20_CloseWaitsForInFlight ==
    db = "closed" => (init # "pending" /\ pending = <<>>)

\* what does hold: the handle is released only after the CREATE TABLE and
\* every statement already handed to sqlite3 have finished
CloseWaitsForIssued ==
    db = "closed" =>
        (init # "pending" /\ \A i \in 1..Len(pending) : ~pending[i].issued)

(***************************************************************************)
(* Properties of concurrent writers (under SpecWriters).                   *)
(***************************************************************************)
\* the fields a storeEvent call gives for a record
CallRecord(call) ==
    [ id |-> call.event.id, event |-> call.event.event,
      action |-> call.event.action, issue_number |-> call.event.issue_number,
      timestamp |-> call.event.timestamp, payload |-> Some(call.payload) ]

\* the fields a row holds for a record
RowRecord(row) ==
    [ id |-> row.id, event |-> row.event, action |-> row.action,
      issue_number |-> row.issue_number, timestamp |-> row.timestamp,
      payload |-> row.payload ]

\* this step settles the second of two storeEvent calls of one id that were
\* in flight together, no other call being in flight
SecondOfTwoSettles ==
    /\ Stored
    /\ last.racing
    /\ Len(pending) = 1
    /\ pending[1].event.id = LastEvent.id
    /\ pending' = <<>>
    /\ last'.op = "storeEvent"
    /\ ~last'.err

\* C21: after two concurrent storeEvent calls of one id, the id has exactly
\* one record, and its fields are all the fields of one of the two calls.
C21_ConcurrentWritersNoMix ==
    [][ SecondOfTwoSettles =>
          LET rows == SelectSeq(table', LAMBDA row : row.id = LastEvent.id)
          IN  /\ Len(rows) = 1
              /\ RowRecord(rows[1])
                     \in {CallRecord(last.call[1]), CallRecord(last'.call[1])} ]_vars

\* what does hold: one record, whose columns are all the values one of the two
\* calls bound to its INSERT (never columns of both)
ConcurrentWritersNoMixOfBound ==
    [][ SecondOfTwoSettles =>
          LET rows == SelectSeq(table', LAMBDA row : row.id = LastEvent.id)
              a == last.call[1]
              b == last'.call[1]
          IN  /\ Len(rows) = 1
              /\ RowRecord(rows[1])
                     \in {BoundRow(a.event, a.payload), BoundRow(b.event, b.payload)} ]_vars

(***************************************************************************)
(* Properties of GET /events (under SpecEvents).                           *)
(***************************************************************************)
\* the limit parameter is the decimal writing of an integer
WritesInteger(str) ==
    LET ds == IF str # <<>> /\ str[1] = "-" THEN Tail(str) ELSE str
    IN  ds # <<>> /\ LeadingDigits(ds) = ds

\* C22: GET /events calls getEvents only with an integer limit from 1 to 100
\* (50 when the query has no limit or an empty one); every other limit value
\* is answered 400 VALIDATION_ERROR with no query of the store; no reply lists
\* more than 100 events.
C22_LimitValidated ==
    api # <<>> =>
        LET a == api[1]
        IN  /\ a.call # <<>> => a.call[1] \in 1..LimitCeiling
            /\ a.request = None => a.call = <<DefaultLimit>>
            /\ ( /\ a.request \notin {None, Some(<<>>)}
                 /\ ~( /\ WritesInteger(a.request[1])
                       /\ ParseInt(a.request[1])[1] \in 1..LimitCeiling ) )
               => (a.status = 400 /\ a.error = "VALIDATION_ERROR" /\ a.call = <<>>)
            /\ Len(a.body) <= LimitCeiling

\* what does hold: getEvents is called only with an integer from 1 to 100, a
\* parameter parseInt reads as NaN or out of the range is answered 400, and no
\* reply lists more events than the limit
LimitValidatedAsParsed ==
    api # <<>> =>
        LET a == api[1]
        IN  /\ a.call # <<>> => a.call[1] \in 1..LimitCeiling
            /\ a.request = None => a.call = <<DefaultLimit>>
            /\ ( /\ a.request \notin {None, Some(<<>>)}
                 /\ ( \/ ParseInt(a.request[1]) = None
                      \/ ParseInt(a.request[1])[1] \notin 1..LimitCeiling ) )
               => (a.status = 400 /\ a.error = "VALIDATION_ERROR" /\ a.call = <<>>)
            /\ a.call # <<>> => Len(a.body) <= a.call[1]

(***************************************************************************)
(* Properties of GitHubClient and its routes (under SpecClient).           *)
(***************************************************************************)
\* the reply the error mapping names for an upstream status
MappedReply(s) ==
    CASE s \in {400, 422} -> [status |-> 400, error |-> "VALIDATION_ERROR"]
      [] s = 401 -> [status |-> 401, error |-> "UNAUTHORIZED"]
      [] s = 403 -> [status |-> 403, error |-> "FORBIDDEN"]
      [] s = 404 -> [status |-> 404, error |-> "NOT_FOUND"]
      [] s = 429 -> [status |-> 429, error |-> "RATE_LIMIT_EXCEEDED"]
      [] OTHER -> [status |-> 503, error |-> "SERVICE_UNAVAILABLE"]

\* the reply of a route, as a status and an error code
Replied == [status |-> api[1].status, error |-> api[1].error]

\* the upstream API failed the request the last reply is about
UpstreamFailed == api # <<>> /\ api[1].sent /\ api[1].upstream # 200

\* C23: an error of the upstream API is answered by its status: 400 and 422
\* with 400 VALIDATION_ERROR, 401 with 401 UNAUTHORIZED, 403 with 403
\* FORBIDDEN, 404 with 404 NOT_FOUND, 429 with 429 RATE_LIMIT_EXCEEDED, 5xx
\* and network failure with 503 SERVICE_UNAVAILABLE.
C23_UpstreamErrorsMapped ==
    UpstreamFailed => Replied = MappedReply(api[1].upstream)

\* (what holds instead: 401, 403, 404 and 429 are answered as named; 400, 422,
\* 5xx and a network failure are answered 500 INTERNAL_ERROR)
UpstreamErrorsMappedByMessage ==
    UpstreamFailed =>
        Replied = IF api[1].upstream \in {401, 403, 404, 429}
                  THEN MappedReply(api[1].upstream)
                  ELSE [status |-> 500, error |-> "INTERNAL_ERROR"]

\* GET /issues answered a listing whose upstream response carried a Link header
ListedWithLink ==
    /\ api # <<>> /\ api[1].route = "GET /issues" /\ api[1].sent
    /\ api[1].upstream = 200 /\ api[1].upstreamLink # None

\* C24: when the upstream response to a list-issues request carries a Link
\* header, the GET /issues reply carries that same Link header value.
C24_LinkForwarded ==
    ListedWithLink => api[1].link = api[1].upstreamLink

\* (what holds instead: the reply never carries the upstream value; it carries
\* a Link header only when an entry has rel="link", and then that entry's url)
LinkNeverForwardedAsReceived ==
    ListedWithLink =>
        /\ api[1].link # api[1].upstreamLink
        /\ api[1].link # None =>
               \E url \in {"page2", "page5"} :
                   /\ api[1].link = Some(<<url>>)
                   /\ Includes(api[1].upstreamLink[1], LinkEntry(url, "link"))

\* this step is a valid request to a route over the client c
ClientCalled(c) ==
    api' # <<>> /\ api' # api /\ api'[1].client = c /\ api'[1].valid

\* the last reply is about a request the client c sent upstream, and the
\* response to it carried the rate headers h
LastResponseCarried(c, h) ==
    /\ api # <<>> /\ api[1].client = c /\ api[1].sent
    /\ api[1].upstream # NoUpstreamResponse /\ api[1].headers = h

\* the reset time of a snapshot has passed
ResetPassed(rl) == rl.reset # None /\ rl.reset[1] * TicksPerSecond < now

\* C29: a client whose snapshot has remaining <= 0 (taken from a response
\* that carried the rate headers) is not blocked forever: once the snapshot's
\* reset time has passed, its next call is sent upstream and the snapshot is
\* refreshed from the response.
C29_UnblockedAfterReset ==
    [][ \A c \in Clients :
          ( /\ checkRateLimit(rateLimit[c])
            /\ ResetPassed(rateLimit[c][1])
            /\ \E h \in RateHeaders \ {NoRateHeaders} : LastResponseCarried(c, h)
            /\ ClientCalled(c) )
          => ( /\ api'[1].sent
               /\ api'[1].upstream # NoUpstreamResponse
                     => rateLimit'[c] = updateRateLimit(api'[1].headers) ) ]_vars

\* (what holds instead: a client whose snapshot has remaining <= 0 sends
\* nothing upstream and keeps the snapshot, whatever the time)
BlockedWhateverTheTime ==
    [][ \A c \in Clients :
          (checkRateLimit(rateLimit[c]) /\ ClientCalled(c))
              => (~api'[1].sent /\ rateLimit'[c] = rateLimit[c]) ]_vars

\* C30: after an upstream response without rate headers (success or error),
\* the client's next request is sent upstream, not rejected locally with
\* 'Rate limit exceeded'.
C30_NoHeadersNotRateLimited ==
    [][ \A c \in Clients :
          (LastResponseCarried(c, NoRateHeaders) /\ ClientCalled(c))
              => api'[1].sent ]_vars

\* (what holds instead: after a response without rate headers the snapshot
\* has remaining 0)
NoHeadersLeaveZeroRemaining ==
    \A c \in Clients :
        LastResponseCarried(c, NoRateHeaders) =>
            rateLimit[c] # None /\ rateLimit[c][1].remaining = Some(0)

====
